---- MODULE Spec2Model ----
(***************************************************************************)
(* A model of howser's validator (src/src/validator.rs): the sibling-block *)
(* matcher with its bookmark, and the two-stack content matcher with its   *)
(* tokenizer.  Strings are sequences of one-character strings; a sibling   *)
(* list is a sequence and a cursor is an index into it, 0 standing for the *)
(* absent node (Option::None), so prev_sibling is "minus one".             *)
(***************************************************************************)
EXTENDS Integers, Sequences, FiniteSets, TLC

VARIABLES
    \* --- the sibling-block matcher (validate_sibling_blocks)
    rxs,               \* the prescription siblings of the level, left to right
    docs,              \* the document siblings of the level, left to right
    current_rx,        \* cursor into rxs
    current_node,      \* cursor into docs
    current_bookmark,  \* cursor into docs
    frames,            \* the active consume_repeatable_matches calls, innermost last
    ret,               \* the MatchResult a finished consume_repeatable_matches hands back
    pc,                \* "main" | "done" | "idle"
    result,            \* "none" | "ok" (Ok(None)) | "errors" (Ok(Some(errors)))
    errors,            \* the Vec of errors returned with Ok(Some(errors))
    last,              \* the last consume_* call: its operation, inputs and MatchResult
    \* --- the content matcher (match_contents / tokenize_prompts)
    prompt_seq,        \* the prompt tokens the prescription string is written from
    subs,              \* the text put in place of each prompt to write the document
    rx_content,        \* the prescription content string
    node_content,      \* the document content string
    tokens,            \* tokenize_prompts(rx_content)
    prompts,           \* the VecDeque of prompts still to match
    content_queue,
    left_stack,
    right_stack,
    current_direction, \* "Left" | "Right"
    match_pairs,       \* the returned Vec<ContentMatchPair>
    cstep,             \* the last prompt step of match_contents: prompt, direction, before/after
    cpc,               \* "start" | "match" | "done" | "idle"
    \* --- one matching function applied to a pair of nodes
    the_rx,            \* the prescription node
    the_node,          \* the document node
    verdict,           \* the function applied and what it returned
    npc                \* "start" | "done" | "idle"

blockVars == <<rxs, docs, current_rx, current_node, current_bookmark, frames, ret, pc,
               result, errors, last>>
contentVars == <<prompt_seq, subs, rx_content, node_content, tokens, prompts,
                 content_queue, left_stack, right_stack, current_direction,
                 match_pairs, cstep, cpc>>
nodeVars == <<the_rx, the_node, verdict, npc>>
vars == <<blockVars, contentVars, nodeVars>>

(***************************************************************************)
(* Strings                                                                 *)
(***************************************************************************)
Min(S) == CHOOSE x \in S : \A y \in S : x <= y
Max(S) == CHOOSE x \in S : \A y \in S : x >= y

\* Every position (0-based, as str::find counts) at which pat occurs in s.
Occurrences(s, pat) ==
    {i \in 0..(Len(s) - Len(pat)) : SubSeq(s, i + 1, i + Len(pat)) = pat}

\* str::rfind: the last occurrence, -1 for Option::None.
rfind(s, pat) == IF Occurrences(s, pat) = {} THEN -1 ELSE Max(Occurrences(s, pat))

\* A mutant of find: the last occurrence is taken, as for the Right direction.
find_last(s, pat) == rfind(s, pat)

\* str::find: the first occurrence, -1 for Option::None.
find(s, pat) == IF Occurrences(s, pat) = {} THEN -1 ELSE Min(Occurrences(s, pat))

IsWhitespace(c) == c = " "

\* A mutant of trim: the string is taken as written.
trim_asWritten(s) == s

\* str::trim
trim(s) ==
    LET keep == {i \in 1..Len(s) : ~IsWhitespace(s[i])}
    IN  IF keep = {} THEN <<>> ELSE SubSeq(s, Min(keep), Max(keep))

(***************************************************************************)
(* Prompt tokens and match pairs (data::PromptToken, data::ContentMatchPair)*)
(***************************************************************************)
MANDATORY_PROMPT == <<"-", "!", "!", "-">>
OPTIONAL_PROMPT == <<"-", "?", "?", "-">>

Mandatory == [kind |-> "Mandatory", text |-> <<>>]
Optional == [kind |-> "Optional", text |-> <<>>]
NoneToken == [kind |-> "None", text |-> <<>>]
Literal(s) == [kind |-> "Literal", text |-> s]

\* Option<String>
Absent == [some |-> FALSE, val |-> <<>>]
Some(s) == [some |-> TRUE, val |-> s]

ContentMatchPair(token, bound) == [token |-> token, bound |-> bound]

\* PromptToken::to_string
token_to_string(t) ==
    CASE t.kind = "Mandatory" -> MANDATORY_PROMPT
      [] t.kind = "Optional" -> OPTIONAL_PROMPT
      [] t.kind = "Literal" -> t.text
      [] OTHER -> <<>>

\* ContentMatchPair::contains_mismatch: a (Mandatory, None) or (Literal, None) pair.
contains_mismatch(pairs) ==
    \E i \in 1..Len(pairs) :
        /\ pairs[i].token.kind \in {"Mandatory", "Literal"}
        /\ ~pairs[i].bound.some

(***************************************************************************)
(* tokenize_prompts                                                        *)
(***************************************************************************)
\* Regex::find with CONTENT_PROMPT_PATTERN: the leftmost occurrence of a prompt.
prompt_pattern_find(s) ==
    LET hits == Occurrences(s, MANDATORY_PROMPT) \cup Occurrences(s, OPTIONAL_PROMPT)
    IN  IF hits = {}
        THEN [found |-> FALSE, start |-> 0, end |-> 0, str |-> <<>>]
        ELSE LET b == Min(hits)
             IN  [found |-> TRUE, start |-> b, end |-> b + Len(MANDATORY_PROMPT),
                  str |-> SubSeq(s, b + 1, b + Len(MANDATORY_PROMPT))]

\* A mutant of prompt_token: every prompt is read as Mandatory.
prompt_token_allMandatory(str) == Mandatory

\* The match on location.as_str() (lines 836-840).
prompt_token(str) ==
    IF str = MANDATORY_PROMPT THEN Mandatory
    ELSE IF str = OPTIONAL_PROMPT THEN Optional
    ELSE NoneToken

\* The Literal pushed for the text before the prompt found (lines 831-835).
leading_literal(tail, location) ==
    IF location.start > 0
    THEN <<Literal(SubSeq(tail, 1, location.start))>>
    ELSE <<>>

RECURSIVE tokenize_tail(_)
\* The while loop over tail (lines 826-847).
tokenize_tail(tail) ==
    IF tail = <<>> THEN <<>>
    ELSE LET location == prompt_pattern_find(tail)
         IN  IF location.found
             THEN leading_literal(tail, location)
                  \o <<prompt_token(location.str)>>
                  \o tokenize_tail(SubSeq(tail, location.end + 1, Len(tail)))
             ELSE <<Literal(tail)>>

tokenize_prompts(content) == tokenize_tail(trim(content))

(***************************************************************************)
(* match_contents, one prompt at a time.  A matcher state is the record    *)
(* [content_queue, prompts, left_stack, right_stack, current_direction].   *)
(***************************************************************************)
\* The stack the current direction writes to (lines 719-722).
stack_of(st) ==
    IF st.current_direction = "Left" THEN st.left_stack ELSE st.right_stack

\* The prompt the current direction pops: pop_front for Left, pop_back for Right.
popped_prompt(st) ==
    IF st.current_direction = "Left" THEN Head(st.prompts)
    ELSE st.prompts[Len(st.prompts)]

remaining_prompts(st) ==
    IF st.current_direction = "Left" THEN Tail(st.prompts)
    ELSE SubSeq(st.prompts, 1, Len(st.prompts) - 1)

with_stack(st, stack) ==
    IF st.current_direction = "Left"
    THEN [st EXCEPT !.left_stack = stack]
    ELSE [st EXCEPT !.right_stack = stack]

\* A mutant of match_mandatory: an empty content_queue binds the empty string.
match_mandatory_emptyOk(st) ==
    IF st.content_queue = <<>>
    THEN with_stack(st, Append(stack_of(st), ContentMatchPair(Mandatory, Some(<<>>))))
    ELSE IF st.current_direction = "Left"
    THEN [with_stack(st, Append(stack_of(st),
              ContentMatchPair(Mandatory, Some(<<Head(st.content_queue)>>))))
            EXCEPT !.content_queue = Tail(st.content_queue)]
    ELSE [with_stack(st, Append(stack_of(st),
              ContentMatchPair(Mandatory, Some(<<st.content_queue[Len(st.content_queue)]>>))))
            EXCEPT !.content_queue = SubSeq(st.content_queue, 1, Len(st.content_queue) - 1)]

\* A mutant of match_mandatory: the character is taken from the front of
\* content_queue in both directions.
match_mandatory_takesFront(st) ==
    IF st.content_queue = <<>>
    THEN with_stack(st, Append(stack_of(st), ContentMatchPair(Mandatory, Absent)))
    ELSE [with_stack(st, Append(stack_of(st),
              ContentMatchPair(Mandatory, Some(<<Head(st.content_queue)>>))))
            EXCEPT !.content_queue = Tail(st.content_queue)]

\* PromptToken::Mandatory (lines 725-735).
match_mandatory(st) ==
    IF st.content_queue = <<>>
    THEN with_stack(st, Append(stack_of(st), ContentMatchPair(Mandatory, Absent)))
    ELSE IF st.current_direction = "Left"
    THEN [with_stack(st, Append(stack_of(st),
              ContentMatchPair(Mandatory, Some(<<Head(st.content_queue)>>))))
            EXCEPT !.content_queue = Tail(st.content_queue)]
    ELSE [with_stack(st, Append(stack_of(st),
              ContentMatchPair(Mandatory, Some(<<st.content_queue[Len(st.content_queue)]>>))))
            EXCEPT !.content_queue = SubSeq(st.content_queue, 1, Len(st.content_queue) - 1)]

\* PromptToken::Optional (lines 736-738).
match_optional(st) ==
    with_stack(st, Append(stack_of(st), ContentMatchPair(Optional, Absent)))

\* A mutant of literal_split: the Literal is found only in a content_queue that
\* is equal to it.
literal_split_whole(queue, content, direction) ==
    IF queue = content
    THEN [preface |-> Absent, substitution |-> Some(content), queue |-> <<>>]
    ELSE [preface |-> Absent, substitution |-> Absent, queue |-> queue]

\* The (preface, substitution, content_queue) of a Literal prompt (lines 740-766).
literal_split(queue, content, direction) ==
    IF direction = "Left"
    THEN LET n == find(queue, content)
         IN  IF n = -1
             THEN [preface |-> Absent, substitution |-> Absent, queue |-> queue]
             ELSE IF n = 0
             THEN [preface |-> Absent,
                   substitution |-> Some(SubSeq(queue, 1, Len(content))),
                   queue |-> SubSeq(queue, Len(content) + 1, Len(queue))]
             ELSE [preface |-> Some(SubSeq(queue, 1, n)),
                   substitution |-> Some(SubSeq(queue, n + 1, n + Len(content))),
                   queue |-> SubSeq(queue, n + Len(content) + 1, Len(queue))]
    ELSE LET n == rfind(queue, content)
         IN  IF n = -1
             THEN [preface |-> Absent, substitution |-> Absent, queue |-> queue]
             ELSE LET split == SubSeq(queue, n + 1, Len(queue))
                  IN  [preface |-> IF Len(split) > Len(content)
                                   THEN Some(SubSeq(split, Len(content) + 1, Len(split)))
                                   ELSE Absent,
                       substitution |-> Some(SubSeq(split, 1, Len(content))),
                       queue |-> SubSeq(queue, 1, n)]

\* A mutant of preface_recorded: the preface is pushed whatever the stack holds.
preface_recorded_always(stack) == TRUE

\* Whether the preface found is pushed as a (None, preface) pair (lines 770-775).
preface_recorded(stack) ==
    stack = <<>> \/ stack[Len(stack)].token.kind = "Literal"

\* PromptToken::Literal (lines 739-787).
match_literal(st, content) ==
    LET sp == literal_split(st.content_queue, content, st.current_direction)
        stack == stack_of(st)
        prefaced == IF sp.preface.some /\ preface_recorded(stack)
                    THEN Append(stack, ContentMatchPair(NoneToken, sp.preface))
                    ELSE stack
    IN  IF sp.substitution.some
        THEN [with_stack(st, Append(prefaced, ContentMatchPair(Literal(content), sp.substitution)))
                EXCEPT !.content_queue = sp.queue]
        ELSE with_stack(st, Append(stack, ContentMatchPair(Literal(content), Absent)))

flip(direction) == IF direction = "Left" THEN "Right" ELSE "Left"

\* One turn of the while loop (lines 718-800), for a prompt that is no None token.
match_step(st) ==
    LET prompt == popped_prompt(st)
        popped == [st EXCEPT !.prompts = remaining_prompts(st)]
        matched == CASE prompt.kind = "Mandatory" -> match_mandatory(popped)
                     [] prompt.kind = "Optional" -> match_optional(popped)
                     [] prompt.kind = "Literal" -> match_literal(popped, prompt.text)
                     [] OTHER -> popped
    IN  [matched EXCEPT !.current_direction = flip(st.current_direction)]

\* A mutant of collect_pairs: the pairs of the right stack come first.
collect_pairs_rightFirst(st) ==
    st.right_stack
    \o (IF /\ st.content_queue # <<>>
            /\ st.left_stack # <<>>
            /\ st.left_stack[Len(st.left_stack)].token.kind = "Literal"
            /\ st.right_stack # <<>>
            /\ st.right_stack[Len(st.right_stack)].token.kind = "Literal"
         THEN Append(st.left_stack, ContentMatchPair(NoneToken, Some(st.content_queue)))
         ELSE st.left_stack)

\* A mutant of collect_pairs: text left in content_queue is always emitted.
collect_pairs_keepsResidue(st) ==
    (IF st.content_queue # <<>>
     THEN Append(st.left_stack, ContentMatchPair(NoneToken, Some(st.content_queue)))
     ELSE st.left_stack)
    \o st.right_stack

\* The residue rule and the chained result (lines 802-817).
collect_pairs(st) ==
    LET l == st.left_stack
        r == st.right_stack
        residue == /\ st.content_queue # <<>>
                   /\ l # <<>> /\ l[Len(l)].token.kind = "Literal"
                   /\ r # <<>> /\ r[Len(r)].token.kind = "Literal"
    IN  (IF residue THEN Append(l, ContentMatchPair(NoneToken, Some(st.content_queue))) ELSE l)
        \o r

\* The matcher state after lines 705-716.
match_start(node_content_, prompts_) ==
    [content_queue |-> node_content_, prompts |-> prompts_,
     left_stack |-> <<>>, right_stack |-> <<>>, current_direction |-> "Left"]

RECURSIVE match_loop(_)
match_loop(st) == IF st.prompts = <<>> THEN st ELSE match_loop(match_step(st))

\* match_contents as a function; ok is FALSE for the Err(RuntimeError) of a None prompt.
match_contents(node_content_, rx_content_) ==
    LET toks == tokenize_prompts(rx_content_)
    IN  IF \E i \in 1..Len(toks) : toks[i].kind = "None"
        THEN [ok |-> FALSE, pairs |-> <<>>]
        ELSE [ok |-> TRUE, pairs |-> collect_pairs(match_loop(match_start(node_content_, toks)))]

(***************************************************************************)
(* Nodes.  A node is a record of what its getter and traverser tell: type, *)
(* heading level, list type, content, url, title, children; and of what    *)
(* the Document tells of it: match_type (get_match_type) and wildcard      *)
(* (is_wildcard).  A node without a prompt is Mandatory and no wildcard.   *)
(***************************************************************************)
NodeOf(type) ==
    [type |-> type, level |-> 0, list_type |-> "none", content |-> <<>>,
     url |-> <<>>, title |-> <<>>, children |-> <<>>,
     match_type |-> "Mandatory", wildcard |-> FALSE]

Text(s) == [NodeOf("Text") EXCEPT !.content = s]
CodeSpan(s) == [NodeOf("Code") EXCEPT !.content = s]
Link(url, title, content) ==
    [NodeOf("Link") EXCEPT !.url = url, !.title = title, !.content = content]
Emph(children) == [NodeOf("Emph") EXCEPT !.children = children]
ParagraphOf(children) == [NodeOf("Paragraph") EXCEPT !.children = children]
Paragraph(s) == ParagraphOf(<<Text(s)>>)
Heading(n, s) == [NodeOf("Heading") EXCEPT !.level = n, !.children = <<Text(s)>>]
BlockQuote(children) == [NodeOf("BlockQuote") EXCEPT !.children = children]
Item(children) == [NodeOf("Item") EXCEPT !.children = children]
List(list_type, children) ==
    [NodeOf("List") EXCEPT !.list_type = list_type, !.children = children]

\* The prescription node made of a node, a match type and the wildcard flag.
Rx(node, match_type, wildcard) ==
    [node EXCEPT !.match_type = match_type, !.wildcard = wildcard]

\* ElementType::determine
element_type(node) ==
    CASE node.type \in {"BlockQuote", "List", "Item"} -> "ContainerBlock"
      [] node.type \in {"Paragraph", "Heading"} -> "LeafBlock"
      [] node.type \in {"Emph"} -> "InlineContainer"
      [] node.type \in {"Text", "Code", "Link"} -> "InlineLeaf"
      [] OTHER -> "Other"

\* ValidationProblems, an Option<Vec<Box<Reportable>>>: Ok(None), Ok(Some(errors)).
\* Diverges stands for a call that does not return.
NoProblems == [returns |-> TRUE, some |-> FALSE, errors |-> <<>>]
Problems(errs) == [returns |-> TRUE, some |-> TRUE, errors |-> errs]
Diverges == [returns |-> FALSE, some |-> FALSE, errors |-> <<>>]

\* ContentError::new(rx, node, prescription, document, match_pairs)
ContentError(rx, node, pairs) ==
    [kind |-> "ContentError", rx |-> rx, node |-> node, match_pairs |-> pairs]

\* A mutant of types_match: the heading levels are not compared.
types_match_anyLevel(node, rx) == node.type = rx.type

types_match(node, rx) ==
    IF node.type = rx.type
    THEN IF node.type = "Heading" THEN node.level = rx.level
         ELSE IF node.type = "List" THEN node.list_type = rx.list_type
         ELSE TRUE
    ELSE FALSE

node_is_wildcard(rx) == rx.wildcard

\* The three strings of a link that validate_link_node_content matches (get_url,
\* get_title, get_content).
LinkParts == {"url", "title", "content"}

\* A mutant of LinkPartsMismatch: the title is not looked at.
LinkPartsMismatch_noTitle(node, rx) ==
    \E part \in LinkParts \ {"title"} :
        contains_mismatch(match_contents(node[part], rx[part]).pairs)

\* Lines 645-659: url_match_pairs, title_match_pairs or content_match_pairs
\* contains a mismatch.
LinkPartsMismatch(node, rx) ==
    \E part \in LinkParts : contains_mismatch(match_contents(node[part], rx[part]).pairs)

validate_link_node_content(node, rx) ==
    IF LinkPartsMismatch(node, rx) THEN Problems(<<>>) ELSE NoProblems

\* Lines 684-697: the problems reported for the match_pairs found.
content_problems(node, rx, pairs) ==
    IF contains_mismatch(pairs)
    THEN Problems(<<ContentError(rx, node, pairs)>>)
    ELSE NoProblems

validate_general_node_content(node, rx) ==
    content_problems(node, rx, match_contents(node.content, rx.content).pairs)

validate_node_content(node, rx) ==
    IF rx.type = "Link"
    THEN validate_link_node_content(node, rx)
    ELSE validate_general_node_content(node, rx)

leaf_inline_matches(node, rx) ==
    IF ~types_match(node, rx) THEN FALSE
    ELSE ~validate_node_content(node, rx).some

RECURSIVE inline_matches(_, _)

RECURSIVE inlines_from(_, _, _, _)
\* The while loop of validate_sibling_inlines (lines 529-550) from the cursors
\* i (current_rx) and j (current_node), 0 for an exhausted cursor.
inlines_from(rx_children, node_children, i, j) ==
    IF i = 0 THEN NoProblems
    ELSE IF j = 0 THEN Problems(<<>>)
    ELSE IF inline_matches(rx_children[i], node_children[j])
    THEN inlines_from(rx_children, node_children,
                      IF i < Len(rx_children) THEN i + 1 ELSE 0,
                      IF j < Len(node_children) THEN j + 1 ELSE 0)
    ELSE Problems(<<>>)

\* The cursors start at the first children.
validate_sibling_inlines(parent_rx, parent_node) ==
    inlines_from(parent_rx.children, parent_node.children,
                 IF parent_rx.children = <<>> THEN 0 ELSE 1,
                 IF parent_node.children = <<>> THEN 0 ELSE 1)

container_inline_matches(node, rx) ==
    IF ~types_match(node, rx) THEN FALSE
    ELSE ~validate_sibling_inlines(rx, node).some

inline_matches(rx, node) ==
    CASE element_type(rx) = "InlineLeaf" -> leaf_inline_matches(node, rx)
      [] element_type(rx) = "InlineContainer" -> container_inline_matches(node, rx)
      [] OTHER -> FALSE

\* The match on (child_validation, is_wildcard) of lines 483-489 and 501-507.
children_match(child_validation, is_wildcard) == ~(child_validation.some /\ ~is_wildcard)

leaf_block_matches(node, rx) ==
    IF ~types_match(node, rx) THEN FALSE
    ELSE children_match(validate_sibling_inlines(rx, node), node_is_wildcard(rx))

RECURSIVE block_matches(_, _)

(***************************************************************************)
(* The sibling-block matcher of one level: R are the children of           *)
(* parent_rx_node and D the children of parent_doc_node, left to right.    *)
(* A MatchResult is a State or an Error with its Vec of errors.            *)
(***************************************************************************)
State(rx, node, bookmark) ==
    [kind |-> "State", rx |-> rx, node |-> node, bookmark |-> bookmark, errors |-> <<>>]
Error == [kind |-> "Error", rx |-> 0, node |-> 0, bookmark |-> 0, errors |-> <<>>]

prev_sibling(i) == IF i = 0 THEN 0 ELSE i - 1

RECURSIVE scan_from(_, _, _, _, _)
\* The while loop of scan_for_match (lines 428-461) from current_node = cur.
scan_from(R, D, cur, end_node, rx) ==
    IF cur = 0 THEN 0
    ELSE IF block_matches(D[cur], R[rx]) THEN cur
    ELSE IF end_node # 0 /\ cur = end_node THEN 0
    ELSE scan_from(R, D, prev_sibling(cur), end_node, rx)

\* A mutant of scan_for_match: the stop node ends the scan before it is tested.
scan_for_match_stopsEarly(R, D, start_node, end_node, rx) ==
    IF end_node # 0 /\ start_node = end_node THEN 0
    ELSE scan_from(R, D, start_node, IF end_node = 0 THEN 0 ELSE end_node + 1, rx)

scan_for_match(R, D, start_node, end_node, rx) == scan_from(R, D, start_node, end_node, rx)

\* A mutant of advance_state: the new bookmark is the node found by the scan,
\* not its previous sibling.
advance_state_keepsFound(rx, node, found) ==
    State(prev_sibling(rx), prev_sibling(node), found)

\* Lines 282-305: node matches rx; found is what the scan from the bookmark
\* returned (0 for None).
advance_state(rx, node, found) ==
    State(prev_sibling(rx), prev_sibling(node),
          IF found # 0 THEN prev_sibling(found) ELSE 0)

\* A mutant of rewind_state: node and bookmark are rewound to the node found,
\* not to its previous sibling.
rewind_state_toFound(rx, prev_match) ==
    IF prev_match # 0
    THEN State(prev_sibling(rx), prev_match, prev_match)
    ELSE Error

\* A mutant of rewind_state: the node cursor is put on the node found, the
\* bookmark on its previous sibling.
rewind_state_nodeOnFound(rx, prev_match) ==
    IF prev_match # 0
    THEN State(prev_sibling(rx), prev_match, prev_sibling(prev_match))
    ELSE Error

\* Lines 313-336 and 341-364: the state is rewound to the match found before
\* (prev_match, 0 for None), or the Mandatory node is missing.
rewind_state(rx, prev_match) ==
    IF prev_match # 0
    THEN State(prev_sibling(rx), prev_sibling(prev_match), prev_sibling(prev_match))
    ELSE Error

\* A mutant of consume_mandatory_block_match: an exhausted node cursor is an
\* error, nothing is reclaimed from the bookmark.
consume_mandatory_block_match_noReclaim(R, D, rx, node, bookmark) ==
    IF node # 0
    THEN IF block_matches(D[node], R[rx])
         THEN advance_state(rx, node, scan_for_match(R, D, bookmark, node, rx))
         ELSE rewind_state(rx, scan_for_match(R, D, bookmark, node, rx))
    ELSE Error

consume_mandatory_block_match(R, D, rx, node, bookmark) ==
    IF node # 0
    THEN IF block_matches(D[node], R[rx])
         THEN advance_state(rx, node, scan_for_match(R, D, bookmark, node, rx))
         ELSE rewind_state(rx, scan_for_match(R, D, bookmark, node, rx))
    ELSE rewind_state(rx, scan_for_match(R, D, bookmark, 0, rx))

\* A mutant of consume_optional_block_match: a node that does not match is
\* passed over.
consume_optional_block_match_skips(R, D, rx, node) ==
    [rx |-> prev_sibling(rx), node |-> prev_sibling(node)]

\* OptionalMatchOutput {rx, node}
consume_optional_block_match(R, D, rx, node) ==
    IF node # 0
    THEN IF block_matches(D[node], R[rx])
         THEN [rx |-> prev_sibling(rx), node |-> prev_sibling(node)]
         ELSE [rx |-> prev_sibling(rx), node |-> node]
    ELSE [rx |-> prev_sibling(rx), node |-> node]

\* A mutant of consume_mandatory: without a bookmark the step passes the
\* prescription node over.
consume_mandatory_noBookmarkOk(R, D, rx, node, bookmark) ==
    IF bookmark # 0 THEN consume_mandatory_block_match(R, D, rx, node, bookmark)
    ELSE State(prev_sibling(rx), node, bookmark)

\* The Mandatory arm of consume_block_match (lines 146-155).
consume_mandatory(R, D, rx, node, bookmark) ==
    IF bookmark # 0 THEN consume_mandatory_block_match(R, D, rx, node, bookmark) ELSE Error

\* The Optional arm of consume_block_match (lines 156-162).
optional_state(out, bookmark) == State(out.rx, out.node, bookmark)

consume_optional(R, D, rx, node, bookmark) ==
    optional_state(consume_optional_block_match(R, D, rx, node), bookmark)

\* The None arm of consume_block_match (lines 163-171).
consume_none(R, D, rx, node, bookmark) == State(rx, node, bookmark)

(***************************************************************************)
(* consume_repeatable_matches: a frame is one call of it, with the locals  *)
(* of its loop.                                                            *)
(***************************************************************************)
\* match_count (a usize) is kept exactly up to this value: the code reads only
\* whether it is 0 and whether it is 1.
MatchCountCap == 2

Frame(rx, node, bookmark) ==
    [rx |-> rx, node |-> node, bookmark |-> bookmark,
     repeatable_rx |-> prev_sibling(rx),
     match_count |-> 0, output_bookmark |-> 0,
     next_node |-> node, next_bookmark |-> bookmark]

\* The MatchResult::State arm of the loop (lines 210-229).
loop_state(f, state) ==
    [f EXCEPT !.output_bookmark = IF f.match_count = 1 THEN state.bookmark ELSE @,
              !.next_node = state.node,
              !.next_bookmark = state.bookmark,
              !.match_count = IF @ < MatchCountCap THEN @ + 1 ELSE @]

\* A mutant of post_loop: no match of a Mandatory target is no error.
post_loop_zeroOk(R, f) ==
    State(prev_sibling(f.repeatable_rx), prev_sibling(f.next_node), f.output_bookmark)

\* A mutant of post_loop: node is the node cursor the loop stopped on, not its
\* previous sibling.
post_loop_keepsNode(R, f) ==
    IF f.match_count = 0 /\ R[f.repeatable_rx].match_type = "Mandatory"
    THEN Error
    ELSE State(prev_sibling(f.repeatable_rx), f.next_node, f.output_bookmark)

\* What consume_repeatable_matches returns once its loop broke (lines 236-261).
post_loop(R, f) ==
    IF f.match_count = 0 /\ R[f.repeatable_rx].match_type = "Mandatory"
    THEN Error
    ELSE State(prev_sibling(f.repeatable_rx), prev_sibling(f.next_node), f.output_bookmark)

NoRet == [pending |-> FALSE, res |-> Error, rx |-> 0, node |-> 0, bookmark |-> 0]
Ret(res, f) == [pending |-> TRUE, res |-> res, rx |-> f.rx, node |-> f.node,
                bookmark |-> f.bookmark]

NoCall == [op |-> "init", rx |-> 0, node |-> 0, bookmark |-> 0, depth |-> 0, out |-> Error]

(***************************************************************************)
(* One call of validate_sibling_blocks as a machine m: its cursors, the    *)
(* consume_repeatable_matches calls under way (frames, innermost last),    *)
(* the MatchResult such a call hands back (ret), and its outcome.          *)
(***************************************************************************)
\* A mutant of level_start: the bookmark starts at the first child.
level_start_bookmarkFirst(R, D) ==
    [current_rx |-> Len(R), current_node |-> Len(D),
     current_bookmark |-> IF D = <<>> THEN 0 ELSE 1,
     frames |-> <<>>, ret |-> NoRet, pc |-> "main", result |-> "none",
     errors |-> <<>>, last |-> NoCall]

\* Lines 102-104: the three cursors start at the last children.
level_start(R, D) ==
    [current_rx |-> Len(R), current_node |-> Len(D), current_bookmark |-> Len(D),
     frames |-> <<>>, ret |-> NoRet, pc |-> "main", result |-> "none",
     errors |-> <<>>, last |-> NoCall]

Top(m) == m.frames[Len(m.frames)]
Pop(m) == SubSeq(m.frames, 1, Len(m.frames) - 1)

\* The arguments of the consume_block_match call about to run: those of the main
\* loop (line 107), or those of the innermost Repeatable loop (line 209).
call_rx(m) == IF m.frames = <<>> THEN m.current_rx ELSE Top(m).repeatable_rx
call_node(m) == IF m.frames = <<>> THEN m.current_node ELSE Top(m).next_node
call_bookmark(m) == IF m.frames = <<>> THEN m.current_bookmark ELSE Top(m).next_bookmark

Calling(m) == m.pc = "main" /\ ~m.ret.pending /\ call_rx(m) # 0

Call(m, op, res) ==
    [op |-> op, rx |-> call_rx(m), node |-> call_node(m), bookmark |-> call_bookmark(m),
     depth |-> Len(m.frames), out |-> res]

\* The caller takes the MatchResult: the main loop (lines 108-124) moves its
\* cursors or returns the errors; a Repeatable loop (lines 210-233) goes on or breaks.
Deliver(R, m, res) ==
    IF m.frames = <<>>
    THEN IF res.kind = "State"
         THEN [m EXCEPT !.current_rx = res.rx,
                        !.current_node = res.node,
                        !.current_bookmark = res.bookmark,
                        !.ret = NoRet]
         ELSE [m EXCEPT !.pc = "done",
                        !.result = "errors",
                        !.errors = res.errors,
                        !.ret = NoRet]
    ELSE IF res.kind = "State"
         THEN [m EXCEPT !.frames = Append(Pop(m), loop_state(Top(m), res)),
                        !.ret = NoRet]
         ELSE [m EXCEPT !.frames = Pop(m),
                        !.ret = Ret(post_loop(R, Top(m)), Top(m))]

\* The MatchResult is delivered and the call is recorded.
Delivered(R, m, op, res) == [Deliver(R, m, res) EXCEPT !.last = Call(m, op, res)]

step_mandatory(R, D, m) ==
    Delivered(R, m, "Mandatory",
              consume_mandatory(R, D, call_rx(m), call_node(m), call_bookmark(m)))

step_optional(R, D, m) ==
    Delivered(R, m, "Optional",
              consume_optional(R, D, call_rx(m), call_node(m), call_bookmark(m)))

step_none(R, D, m) ==
    Delivered(R, m, "None",
              consume_none(R, D, call_rx(m), call_node(m), call_bookmark(m)))

\* consume_repeatable_matches is entered (line 186): its loop starts, or the marker
\* has no previous sibling and the call returns the error of lines 262-265.
step_repeatable(R, D, m) ==
    IF prev_sibling(call_rx(m)) # 0
    THEN [m EXCEPT !.frames = Append(@, Frame(call_rx(m), call_node(m), call_bookmark(m)))]
    ELSE Delivered(R, m, "Repeatable", Error)

\* consume_repeatable_matches returns to its caller.
step_return(R, D, m) ==
    [Deliver(R, m, m.ret.res) EXCEPT
        !.last = [op |-> "Repeatable", rx |-> m.ret.rx, node |-> m.ret.node,
                  bookmark |-> m.ret.bookmark, depth |-> Len(m.frames),
                  out |-> m.ret.res]]

\* rx is exhausted (lines 127-132).
step_finish(m) ==
    IF m.current_node # 0
    THEN [m EXCEPT !.pc = "done", !.result = "errors", !.errors = <<>>]
    ELSE [m EXCEPT !.pc = "done", !.result = "ok"]

\* The next step of the call.
level_step(R, D, m) ==
    IF m.ret.pending THEN step_return(R, D, m)
    ELSE IF call_rx(m) = 0 THEN step_finish(m)
    ELSE CASE R[call_rx(m)].match_type = "Repeatable" -> step_repeatable(R, D, m)
           [] R[call_rx(m)].match_type = "Mandatory" -> step_mandatory(R, D, m)
           [] R[call_rx(m)].match_type = "Optional" -> step_optional(R, D, m)
           [] OTHER -> step_none(R, D, m)

RECURSIVE level_run(_, _, _, _)
\* The call run to its return; a machine state met twice is a loop without end.
level_run(R, D, m, seen) ==
    IF m.pc = "done"
    THEN IF m.result = "ok" THEN NoProblems ELSE Problems(m.errors)
    ELSE IF m \in seen THEN Diverges
    ELSE level_run(R, D, level_step(R, D, m), seen \cup {m})

validate_sibling_blocks(parent_rx_node, parent_doc_node) ==
    level_run(parent_rx_node.children, parent_doc_node.children,
              level_start(parent_rx_node.children, parent_doc_node.children), {})

\* Line 480 passes (node, rx) for (parent_rx_node, parent_doc_node).  The call
\* returns for the nodes drawn here (ContainerCallsReturn).
container_block_matches(node, rx) ==
    IF ~types_match(node, rx) THEN FALSE
    ELSE children_match(validate_sibling_blocks(node, rx), node_is_wildcard(rx))

block_matches(node, rx) ==
    CASE element_type(rx) = "ContainerBlock" -> container_block_matches(node, rx)
      [] element_type(rx) = "LeafBlock" -> leaf_block_matches(node, rx)
      [] OTHER -> FALSE

(***************************************************************************)
(* Bounds and the inputs drawn for the root level.                         *)
(***************************************************************************)
MaxRx == 3
MaxDoc == 3

SeqsUpTo(S, n) == UNION {[1..k -> S] : k \in 0..n}

DocPool == {Paragraph(<<"a">>), Paragraph(<<"b">>), Heading(1, <<"a">>)}

\* A document node read as a prescription node: no prompt, so Mandatory, no wildcard.
AsRx(node) == Rx(node, "Mandatory", FALSE)

RxPool ==
    {AsRx(n) : n \in DocPool}
    \cup {Rx(Paragraph(MANDATORY_PROMPT), "Mandatory", TRUE),
          Rx(Paragraph(OPTIONAL_PROMPT), "Optional", TRUE),
          Rx(Paragraph(<<"-", "\"", "\"", "-">>), "Repeatable", FALSE),
          Rx(Paragraph(<<"a">>), "None", FALSE)}

(***************************************************************************)
(* validate: validate_sibling_blocks on the children of the two roots, one *)
(* consume_* call at a time.                                               *)
(***************************************************************************)
Machine ==
    [current_rx |-> current_rx, current_node |-> current_node,
     current_bookmark |-> current_bookmark, frames |-> frames, ret |-> ret,
     pc |-> pc, result |-> result, errors |-> errors, last |-> last]

SetMachine(m) ==
    /\ current_rx' = m.current_rx
    /\ current_node' = m.current_node
    /\ current_bookmark' = m.current_bookmark
    /\ frames' = m.frames
    /\ ret' = m.ret
    /\ pc' = m.pc
    /\ result' = m.result
    /\ errors' = m.errors
    /\ last' = m.last

\* The machine set up before the first step.
SetInitial(m) ==
    /\ current_rx = m.current_rx
    /\ current_node = m.current_node
    /\ current_bookmark = m.current_bookmark
    /\ frames = m.frames
    /\ ret = m.ret
    /\ pc = m.pc
    /\ result = m.result
    /\ errors = m.errors
    /\ last = m.last

ConsumeMandatory ==
    /\ Calling(Machine)
    /\ rxs[call_rx(Machine)].match_type = "Mandatory"
    /\ \E next \in {step_mandatory(rxs, docs, Machine)} : SetMachine(next)
    /\ UNCHANGED <<rxs, docs, contentVars, nodeVars>>

ConsumeOptional ==
    /\ Calling(Machine)
    /\ rxs[call_rx(Machine)].match_type = "Optional"
    /\ \E next \in {step_optional(rxs, docs, Machine)} : SetMachine(next)
    /\ UNCHANGED <<rxs, docs, contentVars, nodeVars>>

ConsumeNone ==
    /\ Calling(Machine)
    /\ rxs[call_rx(Machine)].match_type = "None"
    /\ \E next \in {step_none(rxs, docs, Machine)} : SetMachine(next)
    /\ UNCHANGED <<rxs, docs, contentVars, nodeVars>>

ConsumeRepeatable ==
    /\ Calling(Machine)
    /\ rxs[call_rx(Machine)].match_type = "Repeatable"
    /\ \E next \in {step_repeatable(rxs, docs, Machine)} : SetMachine(next)
    /\ UNCHANGED <<rxs, docs, contentVars, nodeVars>>

RepeatableReturn ==
    /\ pc = "main"
    /\ ret.pending
    /\ \E next \in {step_return(rxs, docs, Machine)} : SetMachine(next)
    /\ UNCHANGED <<rxs, docs, contentVars, nodeVars>>

Finish ==
    /\ pc = "main"
    /\ ~ret.pending
    /\ frames = <<>>
    /\ current_rx = 0
    /\ \E next \in {step_finish(Machine)} : SetMachine(next)
    /\ UNCHANGED <<rxs, docs, contentVars, nodeVars>>

ContentIdle ==
    /\ prompt_seq = <<>> /\ subs = <<>> /\ rx_content = <<>> /\ node_content = <<>>
    /\ tokens = <<>> /\ prompts = <<>> /\ content_queue = <<>>
    /\ left_stack = <<>> /\ right_stack = <<>> /\ current_direction = "Left"
    /\ match_pairs = <<>> /\ cstep = <<>> /\ cpc = "idle"

NoVerdict == [op |-> "none", matches |-> FALSE, problems |-> NoProblems]

NodeIdle ==
    /\ the_rx = NodeOf("Document") /\ the_node = NodeOf("Document")
    /\ verdict = NoVerdict /\ npc = "idle"

\* validate_sibling_blocks after lines 102-104, for any two sibling lists.
Init ==
    /\ rxs \in SeqsUpTo(RxPool, MaxRx)
    /\ docs \in SeqsUpTo(DocPool, MaxDoc)
    /\ SetInitial(level_start(rxs, docs))
    /\ ContentIdle
    /\ NodeIdle

Next ==
    \/ ConsumeMandatory
    \/ ConsumeOptional
    \/ ConsumeNone
    \/ ConsumeRepeatable
    \/ RepeatableReturn
    \/ Finish

Spec == Init /\ [][Next]_vars

\* The matcher is one sequential program: a step that can be taken is taken.
FairSpec == Spec /\ WF_vars(Next)

(***************************************************************************)
(* Properties of the sibling-block matcher.                                *)
(***************************************************************************)
Done == pc = "done"

\* Every prescription node of the level is Mandatory, Optional or Repeatable.
AllMOR == \A j \in 1..Len(rxs) : rxs[j].match_type \in {"Mandatory", "Optional", "Repeatable"}

\* A flat prescription as the preprocessor writes it: Mandatory and Optional nodes,
\* each followed by at most one Repeatable marker.
WellFormed ==
    /\ AllMOR
    /\ \A j \in 1..Len(rxs) :
           rxs[j].match_type = "Repeatable"
               => j > 1 /\ rxs[j - 1].match_type # "Repeatable"

Repeated(i) == i < Len(rxs) /\ rxs[i + 1].match_type = "Repeatable"

RECURSIVE Assignable(_, _)
\* The document siblings from j on can be assigned, in order and with none left
\* over, to the prescription siblings from i on.
Assignable(i, j) ==
    IF i > Len(rxs) THEN j > Len(docs)
    ELSE LET next == IF Repeated(i) THEN i + 2 ELSE i + 1
             least == IF rxs[i].match_type = "Mandatory" THEN 1 ELSE 0
             most == IF Repeated(i) THEN Len(docs) - j + 1
                     ELSE IF Len(docs) >= j THEN 1 ELSE 0
         IN  \E k \in least..most :
                 /\ \A d \in j..(j + k - 1) : block_matches(docs[d], rxs[i])
                 /\ Assignable(next, j + k)

\* C1: validation of a level reports no error only if every document sibling is
\* matched by some prescription sibling of the level (checked for the well-formed
\* prescriptions).
C1_UnmatchedSiblingIsAnError ==
    (Done /\ WellFormed /\ result = "ok")
        => \A i \in 1..Len(docs) : \E j \in 1..Len(rxs) : block_matches(docs[i], rxs[j])

\* C2: a flat document level that can be assigned to the prescription level
\* (Mandatory exactly one, Optional at most one, repeated any number, at least one
\* when Mandatory) validates with no error.
C2_AssignableValidates ==
    (Done /\ WellFormed /\ Assignable(1, 1)) => result = "ok"

\* The level [Mandatory, Repeatable-marker] against siblings that all match the
\* Mandatory node.
RepeatedMandatoryLevel ==
    /\ Len(rxs) = 2
    /\ rxs[1].match_type = "Mandatory"
    /\ rxs[2].match_type = "Repeatable"
    /\ \A i \in 1..Len(docs) : block_matches(docs[i], rxs[1])

\* C3: [Mandatory, Repeatable-marker] validates n >= 1 siblings that each match
\* the Mandatory node, and reports errors for the empty level.
C3_RepeatedMandatory ==
    (Done /\ RepeatedMandatoryLevel) => (result = "ok" <=> Len(docs) >= 1)

C3_Witness ==
    Done /\ RepeatedMandatoryLevel /\ Len(docs) >= 2 /\ result = "ok"

\* The level [X, T, Repeatable-marker] against [x, t]: x matches only X, t only T.
MandatoryBeforeRepeated ==
    /\ Len(rxs) = 3 /\ Len(docs) = 2
    /\ rxs[1].match_type = "Mandatory"
    /\ rxs[2].match_type = "Mandatory"
    /\ rxs[3].match_type = "Repeatable"
    /\ block_matches(docs[1], rxs[1]) /\ ~block_matches(docs[1], rxs[2])
    /\ block_matches(docs[2], rxs[2]) /\ ~block_matches(docs[2], rxs[1])

\* C4: [X, T, Repeatable-marker] validates [x, t]: a repeat target matched once
\* leaves X matchable against the remaining document nodes.
C4_OneRepeatThenMandatory ==
    (Done /\ MandatoryBeforeRepeated) => result = "ok"

\* C5: with Mandatory, Optional and Repeatable nodes only, a Repeatable loop whose
\* Optional target meets an exhausted document or a node it does not match ends:
\* that call of the target is the last one of the loop.
C5_OptionalTargetEndsLoop ==
    (/\ AllMOR
     /\ last.op = "Optional"
     /\ last.depth > 0
     /\ (last.node = 0 \/ ~block_matches(docs[last.node], rxs[last.rx])))
        => Len(frames) < last.depth

\* C6: a step on a node of match type None returns the state with rx at the
\* node's previous sibling and with node and bookmark unchanged.
C6_NoneAdvancesRx ==
    last.op = "None"
        => last.out = State(prev_sibling(last.rx), last.node, last.bookmark)

\* The prescription is the document itself: every node Mandatory, none wildcard.
IdentityLevel ==
    /\ Len(rxs) = Len(docs)
    /\ \A i \in 1..Len(docs) : rxs[i] = AsRx(docs[i])

\* C7: a document without prompt markers validates against itself.
C7_Identity == (Done /\ IdentityLevel) => result = "ok"

\* Two adjacent identical siblings validated against themselves.
C7_Witness ==
    /\ Done /\ IdentityLevel /\ result = "ok"
    /\ \E i \in 1..(Len(docs) - 1) : docs[i] = docs[i + 1]

(***************************************************************************)
(* The content matcher as a state machine: match_contents run on a          *)
(* prescription string written from prompt tokens and a document string    *)
(* written by putting text in place of the prompts.                        *)
(***************************************************************************)
MaxPrompts == 4

LiteralPool ==
    {<<"a">>, <<"b">>, <<"a", "b">>, <<" ", "a">>, <<"a", " ">>, <<"-", "!", "!">>}

SubPool == {<<>>, <<"a">>, <<"a", "b">>}

TokenPool == {Mandatory, Optional} \cup {Literal(l) : l \in LiteralPool}

IsPrompt(t) == t.kind \in {"Mandatory", "Optional"}

\* Prompt token sequences: no two Literals adjacent.
TokenSeqs ==
    {S \in SeqsUpTo(TokenPool, MaxPrompts) :
        \A i \in 1..(Len(S) - 1) : IsPrompt(S[i]) \/ IsPrompt(S[i + 1])}

RECURSIVE Concat(_)
Concat(ss) == IF ss = <<>> THEN <<>> ELSE Head(ss) \o Concat(Tail(ss))

\* The prescription string: the string forms of the tokens, concatenated.
Serialize(S) == Concat([i \in 1..Len(S) |-> token_to_string(S[i])])

\* The document string: each prompt replaced by its text, each Literal kept.
Substitute(S, sub) ==
    Concat([i \in 1..Len(S) |-> IF IsPrompt(S[i]) THEN sub[i] ELSE S[i].text])

BlockIdle ==
    /\ rxs = <<>> /\ docs = <<>>
    /\ current_rx = 0 /\ current_node = 0 /\ current_bookmark = 0
    /\ frames = <<>> /\ ret = NoRet /\ pc = "idle" /\ result = "none" /\ errors = <<>>
    /\ last = NoCall

InitContent ==
    /\ prompt_seq \in TokenSeqs
    /\ subs \in [1..Len(prompt_seq) -> SubPool]
    /\ \A i \in 1..Len(prompt_seq) : ~IsPrompt(prompt_seq[i]) => subs[i] = <<>>
    /\ rx_content = Serialize(prompt_seq)
    /\ node_content = Substitute(prompt_seq, subs)
    /\ tokens = <<>> /\ prompts = <<>> /\ content_queue = <<>>
    /\ left_stack = <<>> /\ right_stack = <<>> /\ current_direction = "Left"
    /\ match_pairs = <<>> /\ cstep = <<>> /\ cpc = "start"
    /\ BlockIdle
    /\ NodeIdle

Matcher ==
    [content_queue |-> content_queue, prompts |-> prompts, left_stack |-> left_stack,
     right_stack |-> right_stack, current_direction |-> current_direction]

SetMatcher(st) ==
    /\ content_queue' = st.content_queue
    /\ prompts' = st.prompts
    /\ left_stack' = st.left_stack
    /\ right_stack' = st.right_stack
    /\ current_direction' = st.current_direction

\* Lines 705-716: the prescription string is tokenized and the matcher set up.
Tokenize ==
    /\ cpc = "start"
    /\ tokens' = tokenize_prompts(rx_content)
    /\ SetMatcher(match_start(node_content, tokens'))
    /\ cpc' = "match"
    /\ UNCHANGED <<prompt_seq, subs, rx_content, node_content, match_pairs, cstep,
                   blockVars, nodeVars>>

\* One turn of the while loop (lines 718-800).
PromptTurn ==
    /\ SetMatcher(match_step(Matcher))
    /\ cstep' = <<[prompt |-> popped_prompt(Matcher), before |-> Matcher]>>
    /\ UNCHANGED <<prompt_seq, subs, rx_content, node_content, tokens, match_pairs, cpc,
                   blockVars, nodeVars>>

Popped(kind) == cpc = "match" /\ prompts # <<>> /\ popped_prompt(Matcher).kind = kind

MatchMandatory ==
    /\ Popped("Mandatory")
    /\ PromptTurn

MatchOptional ==
    /\ Popped("Optional")
    /\ PromptTurn

MatchLiteral ==
    /\ Popped("Literal")
    /\ PromptTurn

\* Lines 802-817: the residue rule and the returned pairs.
Collect ==
    /\ cpc = "match"
    /\ prompts = <<>>
    /\ match_pairs' = collect_pairs(Matcher)
    /\ cpc' = "done"
    /\ UNCHANGED <<prompt_seq, subs, rx_content, node_content, tokens, prompts,
                   content_queue, left_stack, right_stack, current_direction, cstep,
                   blockVars, nodeVars>>

NextContent ==
    \/ Tokenize
    \/ MatchMandatory
    \/ MatchOptional
    \/ MatchLiteral
    \/ Collect

SpecContent == InitContent /\ [][NextContent]_vars

(***************************************************************************)
(* Properties of the content matcher and the tokenizer.                    *)
(***************************************************************************)
Matched == cpc = "done"

EndsWithOpenMarker(s) ==
    /\ Len(s) >= Len(MANDATORY_PROMPT) - 1
    /\ SubSeq(s, Len(s) - Len(MANDATORY_PROMPT) + 2, Len(s))
           \in {SubSeq(MANDATORY_PROMPT, 1, Len(MANDATORY_PROMPT) - 1),
                SubSeq(OPTIONAL_PROMPT, 1, Len(OPTIONAL_PROMPT) - 1)}

\* No Literal text runs into the prompt after it to form a marker of its own.
NoStraddle ==
    \A i \in 1..(Len(prompt_seq) - 1) :
        (prompt_seq[i].kind = "Literal" /\ IsPrompt(prompt_seq[i + 1]))
            => ~EndsWithOpenMarker(prompt_seq[i].text)

Trimmed == trim(rx_content) = rx_content

MandatoryAt(i) == prompt_seq[i].kind = "Mandatory"
OptionalAt(i) == prompt_seq[i].kind = "Optional"
Positions == 1..Len(prompt_seq)

\* C8: non-empty text for every Mandatory prompt and any text for the Optional
\* prompts gives a document that matches with no mismatch.
C8_Soundness ==
    (Matched /\ NoStraddle /\ \A i \in Positions : MandatoryAt(i) => subs[i] # <<>>)
        => ~contains_mismatch(match_pairs)

C8_Witness ==
    /\ Matched /\ NoStraddle
    /\ \A i \in Positions : MandatoryAt(i) => subs[i] # <<>>
    /\ \E i \in Positions : MandatoryAt(i) /\ Len(subs[i]) > 1
    /\ \E i \in Positions : OptionalAt(i) /\ subs[i] # <<>>
    /\ \E i \in Positions : prompt_seq[i].kind = "Literal"
    /\ ~contains_mismatch(match_pairs)

\* C9 as claimed: a document in which some Mandatory prompt is replaced by the
\* empty string (all literals in order) matches with a mismatch.
C9_EmptyMandatoryMismatch ==
    (Matched /\ NoStraddle /\ \E i \in Positions : MandatoryAt(i) /\ subs[i] = <<>>)
        => contains_mismatch(match_pairs)

\* Every Optional prompt replaced by the empty string, every Mandatory prompt by
\* at most one character and at least one of them by the empty string.
NothingToSpare ==
    /\ \A i \in Positions : OptionalAt(i) => subs[i] = <<>>
    /\ \A i \in Positions : MandatoryAt(i) => Len(subs[i]) <= 1
    /\ \E i \in Positions : MandatoryAt(i) /\ subs[i] = <<>>

\* C9 as amended: for a prescription string without leading or trailing
\* whitespace, a document with nothing to spare for an emptied Mandatory prompt
\* matches with a mismatch.
C9_EmptyMandatoryMismatchAmended ==
    (Matched /\ NoStraddle /\ Trimmed /\ NothingToSpare) => contains_mismatch(match_pairs)

C9_Witness ==
    /\ Matched /\ NoStraddle /\ Trimmed /\ NothingToSpare
    /\ \E i \in Positions : MandatoryAt(i) /\ Len(subs[i]) = 1
    /\ \E i \in Positions : prompt_seq[i].kind = "Literal"
    /\ contains_mismatch(match_pairs)

Tokenized == cpc # "start"

\* C10 as claimed: the tokens of the concatenated string forms are the sequence
\* itself, whitespace at the ends of the first and last Literal included.
C10_RoundTrip == (Tokenized /\ NoStraddle) => tokens = prompt_seq

\* C10 as amended: the round trip holds when the concatenation has no leading or
\* trailing whitespace and no Literal runs into the prompt after it.
C10_RoundTripAmended == (Tokenized /\ NoStraddle /\ Trimmed) => tokens = prompt_seq

C10_Witness ==
    /\ Tokenized /\ NoStraddle /\ Trimmed
    /\ Len(prompt_seq) = 3
    /\ prompt_seq[2].kind = "Literal" /\ IsWhitespace(prompt_seq[2].text[1])
    /\ tokens = prompt_seq

(***************************************************************************)
(* The matching functions applied to one pair of nodes: a prescription     *)
(* node and a document node are drawn, and one function is applied.        *)
(***************************************************************************)
A == <<"a">>
B == <<"b">>

WildcardParagraph == Rx(Paragraph(MANDATORY_PROMPT), "Mandatory", TRUE)
OptionalParagraph == Rx(Paragraph(OPTIONAL_PROMPT), "Optional", TRUE)

DocBlockPool ==
    {Paragraph(A), Paragraph(B), ParagraphOf(<<Text(A), CodeSpan(B)>>),
     Heading(1, A), Heading(2, A),
     BlockQuote(<<Paragraph(A)>>), BlockQuote(<<Paragraph(A), Paragraph(B)>>),
     BlockQuote(<<Paragraph(B)>>),
     List("bullet", <<Item(<<Paragraph(A)>>)>>),
     List("ordered", <<Item(<<Paragraph(A)>>)>>)}

DocLinkPool == {Link(u, t, c) : u \in {A, B}, t \in {<<>>, A}, c \in {<<>>, A, B}}

DocInlinePool ==
    {Text(A), Text(B), Text(A \o B), CodeSpan(A),
     Emph(<<Text(A)>>), Emph(<<Text(A), CodeSpan(B)>>)}
    \cup DocLinkPool

RxBlockPool ==
    DocBlockPool
    \cup {WildcardParagraph, OptionalParagraph,
          Paragraph(A \o MANDATORY_PROMPT),
          Rx(Heading(1, MANDATORY_PROMPT), "Mandatory", TRUE),
          BlockQuote(<<WildcardParagraph>>),
          BlockQuote(<<Paragraph(A), OptionalParagraph>>),
          Rx(BlockQuote(<<WildcardParagraph>>), "Mandatory", TRUE),
          List("bullet", <<Item(<<Paragraph(A), OptionalParagraph>>)>>),
          Rx(List("bullet", <<Item(<<WildcardParagraph>>)>>), "Mandatory", TRUE)}

RxLinkPool ==
    {Link(u, t, c) : u \in {A, MANDATORY_PROMPT}, t \in {<<>>, A, OPTIONAL_PROMPT},
                     c \in {A, MANDATORY_PROMPT, OPTIONAL_PROMPT}}

RxInlinePool ==
    {Text(A), Text(B), Text(MANDATORY_PROMPT), Text(A \o OPTIONAL_PROMPT), CodeSpan(A),
     Emph(<<Text(A)>>), Emph(<<Text(MANDATORY_PROMPT)>>)}
    \cup RxLinkPool

IsBlock(n) == element_type(n) \in {"ContainerBlock", "LeafBlock"}
IsInline(n) == element_type(n) \in {"InlineContainer", "InlineLeaf"}

InitNode ==
    /\ \/ the_rx \in RxBlockPool /\ the_node \in DocBlockPool
       \/ the_rx \in RxInlinePool /\ the_node \in DocInlinePool
    /\ verdict = NoVerdict
    /\ npc = "start"
    /\ BlockIdle
    /\ ContentIdle

Returned(op, matches, problems) == [op |-> op, matches |-> matches, problems |-> problems]

Apply(v) ==
    /\ npc = "start"
    /\ verdict' = v
    /\ npc' = "done"
    /\ UNCHANGED <<the_rx, the_node, blockVars, contentVars>>

TypesMatch ==
    /\ npc = "start"
    /\ Apply(Returned("types_match", types_match(the_node, the_rx), NoProblems))

BlockMatches ==
    /\ IsBlock(the_rx)
    /\ Apply(Returned("block_matches", block_matches(the_node, the_rx), NoProblems))

InlineMatches ==
    /\ IsInline(the_rx)
    /\ Apply(Returned("inline_matches", inline_matches(the_rx, the_node), NoProblems))

\* validate_sibling_inlines as leaf_block_matches and container_inline_matches
\* call it: after the types were found to match.
ValidateSiblingInlines ==
    /\ element_type(the_rx) \in {"LeafBlock", "InlineContainer"}
    /\ types_match(the_node, the_rx)
    /\ LET problems == validate_sibling_inlines(the_rx, the_node)
       IN  Apply(Returned("validate_sibling_inlines", ~problems.some, problems))

\* validate_node_content as leaf_inline_matches calls it.
ValidateNodeContent ==
    /\ element_type(the_rx) = "InlineLeaf"
    /\ types_match(the_node, the_rx)
    /\ LET problems == validate_node_content(the_node, the_rx)
       IN  Apply(Returned("validate_node_content", ~problems.some, problems))

NextNode ==
    \/ TypesMatch
    \/ BlockMatches
    \/ InlineMatches
    \/ ValidateSiblingInlines
    \/ ValidateNodeContent

SpecNode == InitNode /\ [][NextNode]_vars

(***************************************************************************)
(* Properties of the matching functions.                                   *)
(***************************************************************************)
Applied(op) == npc = "done" /\ verdict.op = op

\* The validate_sibling_blocks calls made for the containers drawn return.
ContainerCallsReturn ==
    (IsBlock(the_rx) /\ element_type(the_rx) = "ContainerBlock")
        => /\ validate_sibling_blocks(the_node, the_rx).returns
           /\ validate_sibling_blocks(the_rx, the_node).returns

\* The document node has more inline children than the prescription node.
SurplusInlines == Len(the_node.children) > Len(the_rx.children)

\* C11: when the document node has more inline children than the prescription
\* node, validate_sibling_inlines yields an error (Some), and a leaf block that
\* is no wildcard does not match the document block.
C11_SurplusInlinesRejected ==
    /\ (Applied("validate_sibling_inlines") /\ SurplusInlines) => verdict.problems.some
    /\ (/\ Applied("block_matches")
        /\ element_type(the_rx) = "LeafBlock"
        /\ ~node_is_wildcard(the_rx)
        /\ SurplusInlines) => ~verdict.matches

\* The level is one Mandatory paragraph against one paragraph whose text does
\* not align with it: the document fails on the content of an inline leaf.
InlineLeafMisaligned ==
    /\ Len(rxs) = 1 /\ Len(docs) = 1
    /\ rxs[1].match_type = "Mandatory" /\ ~node_is_wildcard(rxs[1])
    /\ types_match(docs[1], rxs[1])
    /\ Len(rxs[1].children) = 1 /\ Len(docs[1].children) = 1
    /\ validate_node_content(docs[1].children[1], rxs[1].children[1]).some

\* C12: when validate returns errors (Some), the Vec holds at least one
\* diagnostic; when the document fails on the content of an inline leaf, the Vec
\* holds a ContentError with the match pairs of that leaf.
C12_ErrorsCarryADiagnostic ==
    /\ (Done /\ result = "errors") => Len(errors) >= 1
    /\ (Done /\ result = "errors" /\ InlineLeafMisaligned)
           => \E i \in 1..Len(errors) :
                  /\ errors[i].kind = "ContentError"
                  /\ errors[i].match_pairs
                         = match_contents(docs[1].children[1].content,
                                          rxs[1].children[1].content).pairs

\* Validation of the children of node against those of rx, the prescription in
\* the prescription role: sibling blocks for a container, sibling inlines for a
\* leaf block.
children_validation(rx, node) ==
    IF element_type(rx) = "ContainerBlock"
    THEN validate_sibling_blocks(rx, node)
    ELSE validate_sibling_inlines(rx, node)

\* C13: for a wildcard prescription block, block_matches(node, rx) is
\* types_match(node, rx); for any other block it is: the types match and the
\* validation of the children reports no error.
C13_BlockMatches ==
    Applied("block_matches")
        => verdict.matches
               = (/\ types_match(the_node, the_rx)
                  /\ \/ node_is_wildcard(the_rx)
                     \/ ~children_validation(the_rx, the_node).some)

\* validate on the roots rx and node (lines 57-64): the children of rx are the
\* prescription siblings, the children of node the document siblings.
validate(rx_root, doc_root) == validate_sibling_blocks(rx_root, doc_root)

\* C14: when block_matches recurses into a ContainerBlock, the children of the
\* prescription node are the prescription siblings and those of the document node
\* the document siblings, as in validate: the container matches exactly when
\* validate on the two nodes as roots reports no error.
C14_ContainerRoles ==
    (/\ Applied("block_matches")
     /\ element_type(the_rx) = "ContainerBlock"
     /\ types_match(the_node, the_rx)
     /\ ~node_is_wildcard(the_rx))
        => (verdict.matches <=> ~validate(the_rx, the_node).some)

\* The step taken last was a consume_block_match call of the given match type.
Stepped(op) == last.op = op

\* The node cursor of the last step held a node, and that node matches rx.
NodeMatched == last.node # 0 /\ block_matches(docs[last.node], rxs[last.rx])

\* C15: an Optional step returns a State, never an Error; rx moves to its
\* previous sibling, the bookmark is unchanged, and node moves to its previous
\* sibling exactly when it is present and matches rx.  A level of Optional
\* nodes only validates an empty document level.
C15_OptionalStep ==
    /\ Stepped("Optional")
           => /\ last.out.kind = "State"
              /\ last.out.rx = last.rx - 1
              /\ last.out.bookmark = last.bookmark
              /\ last.out.node = IF NodeMatched THEN last.node - 1 ELSE last.node
    /\ (/\ Done
        /\ docs = <<>>
        /\ \A j \in 1..Len(rxs) : rxs[j].match_type = "Optional")
           => result = "ok"

\* An Optional step has kept a node that does not match, and the level is done.
C15_Witness ==
    /\ Stepped("Optional")
    /\ last.node # 0
    /\ ~NodeMatched
    /\ last.out.node = last.node
    /\ Done

\* C16: a Mandatory step whose bookmark is absent returns an Error, whatever the
\* node cursor holds; so a prescription level with a Mandatory node never
\* validates the empty document level.
C16_MandatoryWithoutBookmark ==
    /\ (Stepped("Mandatory") /\ last.bookmark = 0) => last.out.kind = "Error"
    /\ (/\ Done
        /\ docs = <<>>
        /\ \E j \in 1..Len(rxs) : rxs[j].match_type = "Mandatory")
           => result = "errors"

\* A Mandatory step has returned an Error for an absent bookmark while the node
\* cursor held a node.
C16_Witness ==
    /\ Stepped("Mandatory")
    /\ last.bookmark = 0
    /\ last.node # 0
    /\ last.out.kind = "Error"

\* The content match of a document value against a prescription value contains
\* a mismatch.
Mismatch(doc_value, rx_value) == contains_mismatch(match_contents(doc_value, rx_value).pairs)

\* The two nodes drawn are links.
LinkPair == the_rx.type = "Link" /\ the_node.type = "Link"

\* C17: validate_link_node_content reports no problem exactly when none of the
\* content matches of url, title and text content, the document value against
\* the prescription value, contains a mismatch; so a mismatch in one of the
\* three makes the link fail, alone and through inline_matches.
C17_LinkContent ==
    /\ (Applied("validate_node_content") /\ LinkPair)
           => (~verdict.problems.some
                   <=> /\ ~Mismatch(the_node.url, the_rx.url)
                       /\ ~Mismatch(the_node.title, the_rx.title)
                       /\ ~Mismatch(the_node.content, the_rx.content))
    /\ (Applied("inline_matches") /\ LinkPair)
           => \A part \in {"url", "title", "content"} :
                  Mismatch(the_node[part], the_rx[part]) => ~verdict.matches

\* A link has failed on its title alone.
C17_Witness ==
    /\ Applied("validate_node_content")
    /\ LinkPair
    /\ verdict.problems.some
    /\ Mismatch(the_node.title, the_rx.title)
    /\ ~Mismatch(the_node.url, the_rx.url)
    /\ ~Mismatch(the_node.content, the_rx.content)

\* The two nodes have the same type and, for headings, the same level and, for
\* lists, the same list kind.
SameKind(node, rx) ==
    /\ node.type = rx.type
    /\ node.type = "Heading" => node.level = rx.level
    /\ node.type = "List" => node.list_type = rx.list_type

\* C18: types_match(node, rx) holds exactly when the types are equal and, for a
\* Heading, the levels are equal and, for a List, the list kinds are equal; no
\* block_matches or inline_matches succeeds between nodes that differ in one of
\* these, also when rx is a wildcard.
C18_TypesMatch ==
    /\ Applied("types_match") => (verdict.matches <=> SameKind(the_node, the_rx))
    /\ ((Applied("block_matches") \/ Applied("inline_matches"))
            /\ ~SameKind(the_node, the_rx))
           => ~verdict.matches

\* A wildcard heading has been refused a heading of another level.
C18_Witness ==
    /\ Applied("block_matches")
    /\ node_is_wildcard(the_rx)
    /\ the_rx.type = "Heading" /\ the_node.type = "Heading"
    /\ the_rx.level # the_node.level
    /\ ~verdict.matches

\* The prescription siblings are a Mandatory node followed by Optional nodes, one
\* at least, and the document level is a single node that each of them matches.
ReclaimLevel ==
    /\ Len(rxs) >= 2
    /\ rxs[1].match_type = "Mandatory"
    /\ \A j \in 2..Len(rxs) : rxs[j].match_type = "Optional"
    /\ Len(docs) = 1
    /\ \A j \in 1..Len(rxs) : block_matches(docs[1], rxs[j])

\* C19: on such a level validation reports no error: an Optional node has
\* consumed the document node, and the Mandatory step, its node cursor
\* exhausted, reclaims the node by its scan from the bookmark.
C19_Reclaim ==
    (Done /\ ReclaimLevel)
        => /\ result = "ok"
           /\ Stepped("Mandatory")
           /\ last.node = 0
           /\ last.bookmark = 1
           /\ last.out = State(0, 0, 0)

\* The level with two Optional nodes has been validated.
C19_Witness == Done /\ ReclaimLevel /\ Len(rxs) = 3 /\ result = "ok"

\* The document siblings from the bookmark of the last step leftward up to and
\* including its node that match its rx.
MatchesUpToNode ==
    {i \in last.node..last.bookmark : block_matches(docs[i], rxs[last.rx])}

\* The bookmark the step is to leave: the previous sibling of the first of these
\* met from the bookmark, none (0) when there is no such node.
BookmarkAfter == IF MatchesUpToNode = {} THEN 0 ELSE Max(MatchesUpToNode) - 1

\* C20: a Mandatory step (one with a bookmark to scan from) whose node is present
\* and matches rx returns the state with rx and node at their previous siblings
\* and the bookmark at the previous sibling of the first node matching rx met
\* when scanning leftward from the old bookmark up to and including node, and
\* with no bookmark when the scan finds nothing.
C20_MandatoryMatch ==
    (Stepped("Mandatory") /\ last.bookmark # 0 /\ NodeMatched)
        => last.out = State(last.rx - 1, last.node - 1, BookmarkAfter)

\* The scan has found a match right of the node: the bookmark is left on a
\* sibling right of the new node.
C20_Witness ==
    /\ Stepped("Mandatory")
    /\ last.bookmark # 0
    /\ NodeMatched
    /\ last.out.bookmark > last.out.node
    /\ last.out.bookmark = BookmarkAfter

\* The document siblings that match the rx of the last step, from its bookmark
\* leftward down to its node, or down to the first sibling when node is absent.
MatchesFromBookmark ==
    {i \in (IF last.node # 0 THEN last.node ELSE 1)..last.bookmark :
        block_matches(docs[i], rxs[last.rx])}

\* C21: a Mandatory step (one with a bookmark to scan from) whose node is absent
\* or does not match rx scans the siblings from the bookmark leftward, down to
\* node or to the first sibling; when a match is found, rx moves to its
\* previous sibling and node and bookmark are both the previous sibling of the
\* node found; when none is found the step returns an Error.
C21_MandatoryRewind ==
    (Stepped("Mandatory") /\ last.bookmark # 0 /\ ~NodeMatched)
        => IF MatchesFromBookmark # {}
           THEN last.out = State(last.rx - 1, Max(MatchesFromBookmark) - 1,
                                 Max(MatchesFromBookmark) - 1)
           ELSE last.out.kind = "Error"

\* A node that does not match was met, and the scan has found a match right of
\* it that has a previous sibling.
C21_Witness ==
    /\ Stepped("Mandatory")
    /\ last.bookmark # 0
    /\ last.node # 0
    /\ ~NodeMatched
    /\ last.out.kind = "State"
    /\ last.out.node # 0
    /\ last.out.node = last.out.bookmark

\* The last step was a Repeatable step whose target is a Mandatory node, and it
\* has succeeded.
RepeatedMandatory ==
    /\ Stepped("Repeatable")
    /\ last.out.kind = "State"
    /\ last.rx >= 2
    /\ rxs[last.rx - 1].match_type = "Mandatory"

RECURSIVE LoopEnd(_, _, _, _)
RECURSIVE LoopNext(_, _, _, _, _)
\* The Mandatory steps of the target rx repeated from the cursors of st until one
\* returns an Error: the node cursor they stop on, the number that succeeded and
\* the bookmark the second of them produced (0 when there is none).
LoopNext(rx, st, count, second, res) ==
    IF res.kind = "Error"
    THEN [stop |-> st.node, count |-> count, second |-> second]
    ELSE LoopEnd(rx, res, count + 1, IF count = 1 THEN res.bookmark ELSE second)

LoopEnd(rx, st, count, second) ==
    LoopNext(rx, st, count, second, consume_mandatory(rxs, docs, rx, st.node, st.bookmark))

\* The loop of the last Repeatable step.
LastLoop == LoopEnd(last.rx - 1, State(last.rx - 1, last.node, last.bookmark), 0, 0)

\* The state a Repeatable step is to return: rx at the previous sibling of the
\* target, node at the previous sibling of the node cursor the loop stopped on,
\* and the bookmark of the second iteration that succeeded.
RepeatableResult ==
    RepeatedMandatory
        => last.out = State(prev_sibling(last.rx - 1), prev_sibling(LastLoop.stop),
                            LastLoop.second)

\* The loop of the last Repeatable step has stopped on a document node that the
\* target does not match.
StoppedOnMismatch ==
    /\ RepeatedMandatory
    /\ LastLoop.stop # 0
    /\ ~block_matches(docs[LastLoop.stop], rxs[last.rx - 1])

\* The document siblings the last step has compared with its rx: the node, and
\* for a Mandatory step the siblings from the bookmark leftward, down to the
\* first match, to the node or to the first sibling.
Compared ==
    CASE Stepped("Optional") -> {last.node} \ {0}
      [] Stepped("Mandatory") /\ last.bookmark # 0 ->
            ({last.node} \ {0})
            \cup {i \in (IF last.node # 0 THEN last.node ELSE 1)..last.bookmark :
                     \A k \in (i + 1)..last.bookmark :
                         ~block_matches(docs[k], rxs[last.rx])}
      [] OTHER -> {}

\* A consume_block_match call returns in this step.
NextCall == last' # last

\* C22 as stated, over the steps taken: after a Repeatable step that
\* succeeded, rx is the previous sibling of the target, the bookmark is the one
\* the second iteration that succeeded produced (none if fewer than two
\* succeeded) and node is the previous sibling of the node cursor the loop
\* stopped on; when the loop stopped on a node that does not match, that node
\* is not compared with the prescription node of the step that follows.
C22_RepeatableSkips ==
    [][/\ RepeatableResult
       /\ (StoppedOnMismatch /\ NextCall) => LastLoop.stop \notin Compared']_vars

\* C22 amended: the same state after the Repeatable step; when the loop stopped
\* on a node that does not match, the step that follows starts with its node
\* cursor left of that node (a scan from the bookmark may still compare it).
C22_RepeatableSkipsAmended ==
    [][/\ RepeatableResult
       /\ (StoppedOnMismatch /\ NextCall) => last'.node < LastLoop.stop]_vars

\* A Repeatable step has succeeded with two iterations or more, its loop stopped
\* on a node that does not match, and the bookmark it returns is on that node.
C22_Witness ==
    /\ StoppedOnMismatch
    /\ LastLoop.count >= 2
    /\ last.out.node < LastLoop.stop
    /\ last.out.bookmark = LastLoop.stop

\* The first prescription sibling is a Repeatable marker: it has no previous
\* sibling.
MarkerWithoutTarget == rxs # <<>> /\ rxs[1].match_type = "Repeatable"

\* C23: the step of a Repeatable marker that has no previous sibling returns an
\* Error, whatever node and bookmark are, and the validation of a level with
\* such a marker fails.
C23_MarkerWithoutTarget ==
    /\ (Stepped("Repeatable") /\ last.rx = 1) => last.out.kind = "Error"
    /\ (Done /\ MarkerWithoutTarget) => result = "errors"

\* With a prompt pattern that finds the Mandatory and the Optional marker only,
\* tokenize_prompts yields no None token: the None arm of match_contents (lines
\* 788-793) is never entered, for any prescription string drawn.
NoNonePrompt ==
    /\ \A i \in 1..Len(tokens) : tokens[i].kind # "None"
    /\ match_contents(node_content, rx_content).ok

\* The turn of the while loop taken last was for a prompt of the given kind;
\* Before is the matcher state it started from.
Turn(kind) == cstep # <<>> /\ cstep[1].prompt.kind = kind
Before == cstep[1].before

\* The turn has pushed the pair on the stack of its direction, and has left the
\* other stack as it was.
Pushed(pair) ==
    IF Before.current_direction = "Left"
    THEN left_stack = Append(Before.left_stack, pair) /\ right_stack = Before.right_stack
    ELSE right_stack = Append(Before.right_stack, pair) /\ left_stack = Before.left_stack

\* The character at the end of the queue q that the direction takes from, and q
\* without it.
EndChar(q, direction) == IF direction = "Left" THEN q[1] ELSE q[Len(q)]
WithoutEndChar(q, direction) ==
    IF direction = "Left" THEN SubSeq(q, 2, Len(q)) ELSE SubSeq(q, 1, Len(q) - 1)

\* C25: a Mandatory prompt removes one character from content_queue, at the
\* front for Left and at the back for Right, and binds it; on an empty
\* content_queue it pushes (Mandatory, absent) and removes nothing.  An
\* Optional prompt pushes (Optional, absent), leaves content_queue unchanged and
\* is no mismatch.
C25_PromptEffect ==
    /\ Turn("Mandatory")
           => IF Before.content_queue = <<>>
              THEN /\ content_queue = <<>>
                   /\ Pushed(ContentMatchPair(Mandatory, Absent))
              ELSE /\ content_queue
                          = WithoutEndChar(Before.content_queue, Before.current_direction)
                   /\ Pushed(ContentMatchPair(Mandatory,
                          Some(<<EndChar(Before.content_queue, Before.current_direction)>>)))
    /\ Turn("Optional")
           => /\ content_queue = Before.content_queue
              /\ Pushed(ContentMatchPair(Optional, Absent))
              /\ ~contains_mismatch(<<ContentMatchPair(Optional, Absent)>>)

\* A Mandatory prompt popped in direction Right has taken the last character of
\* a content_queue whose first character is another one.
C25_Witness ==
    /\ Turn("Mandatory")
    /\ Before.current_direction = "Right"
    /\ Len(Before.content_queue) >= 2
    /\ Before.content_queue[1] # Before.content_queue[Len(Before.content_queue)]
    /\ Len(content_queue) = Len(Before.content_queue) - 1

\* The turn has pushed the pairs, in this order, on the stack of its direction,
\* and has left the other stack as it was.
PushedAll(pairs) ==
    IF Before.current_direction = "Left"
    THEN left_stack = Before.left_stack \o pairs /\ right_stack = Before.right_stack
    ELSE right_stack = Before.right_stack \o pairs /\ left_stack = Before.left_stack

\* The k characters of q at the end the direction takes from.
EndText(q, k, direction) ==
    IF direction = "Left" THEN SubSeq(q, 1, k) ELSE SubSeq(q, Len(q) - k + 1, Len(q))

\* q is the preface, the literal and the rest, read from the end the direction
\* takes from.
SplitsInto(q, preface, content, rest, direction) ==
    IF direction = "Left" THEN q = preface \o content \o rest
    ELSE q = rest \o content \o preface

\* The stack the turn wrote to is empty or has a Literal pair on top.
TopIsLiteralOrNone(stack) ==
    stack = <<>> \/ stack[Len(stack)].token.kind = "Literal"

\* C26: a Literal prompt that is found is removed from content_queue together
\* with the preface, the text between the current end of content_queue and the
\* match; a (None, preface) pair is pushed before the literal pair exactly when
\* the preface is not empty and the stack of the direction is empty or has a
\* Literal pair on top.  A Literal that is not found pushes (Literal, absent)
\* and leaves content_queue unchanged.
C26_LiteralPreface ==
    Turn("Literal") =>
        IF Occurrences(Before.content_queue, cstep[1].prompt.text) = {}
        THEN /\ content_queue = Before.content_queue
             /\ PushedAll(<<ContentMatchPair(cstep[1].prompt, Absent)>>)
        ELSE \E k \in 0..Len(Before.content_queue) :
                /\ SplitsInto(Before.content_queue,
                              EndText(Before.content_queue, k, Before.current_direction),
                              cstep[1].prompt.text, content_queue,
                              Before.current_direction)
                /\ IF k > 0 /\ TopIsLiteralOrNone(stack_of(Before))
                   THEN PushedAll(<<ContentMatchPair(NoneToken,
                                       Some(EndText(Before.content_queue, k,
                                                    Before.current_direction))),
                                    ContentMatchPair(cstep[1].prompt,
                                       Some(cstep[1].prompt.text))>>)
                   ELSE PushedAll(<<ContentMatchPair(cstep[1].prompt,
                                       Some(cstep[1].prompt.text))>>)

\* A Literal prompt was found behind a preface while the stack of its direction
\* had a prompt pair on top: content_queue lost preface and literal, the stack
\* gained the literal pair only.
C26_Witness ==
    /\ Turn("Literal")
    /\ stack_of(Before) # <<>>
    /\ Len(Before.content_queue) > Len(content_queue) + Len(cstep[1].prompt.text)
    /\ PushedAll(<<ContentMatchPair(cstep[1].prompt, Some(cstep[1].prompt.text))>>)

\* A Literal prompt was found behind a preface on an empty stack, and the
\* (None, preface) pair was pushed.
PrefaceRecorded ==
    /\ Turn("Literal")
    /\ stack_of(Before) = <<>>
    /\ Len(Before.content_queue) > Len(content_queue) + Len(cstep[1].prompt.text)

\* A Literal prompt was not found.
LiteralNotFound ==
    /\ Turn("Literal")
    /\ Occurrences(Before.content_queue, cstep[1].prompt.text) = {}

\* Both stacks are non-empty and have a Literal pair on top.
LiteralTops ==
    /\ left_stack # <<>> /\ left_stack[Len(left_stack)].token.kind = "Literal"
    /\ right_stack # <<>> /\ right_stack[Len(right_stack)].token.kind = "Literal"

\* C27: when match_contents returns, the text left in content_queue is a
\* (None, residue) pair at the end of the left stack's pairs exactly when both
\* stacks are non-empty with a Literal pair on top; otherwise the pairs are
\* those of the two stacks and the residue is dropped.  The residue is no
\* mismatch in either case.
C27_Residue ==
    Matched =>
        /\ match_pairs
              = IF content_queue # <<>> /\ LiteralTops
                THEN left_stack \o <<ContentMatchPair(NoneToken, Some(content_queue))>>
                         \o right_stack
                ELSE left_stack \o right_stack
        /\ contains_mismatch(match_pairs) <=> contains_mismatch(left_stack \o right_stack)

\* A prescription of one Literal token was matched against a document with text
\* left over: the right stack is empty, the residue is dropped and the result
\* holds no mismatch.
C27_Witness ==
    /\ Matched
    /\ Len(tokens) = 1 /\ tokens[1].kind = "Literal"
    /\ content_queue # <<>>
    /\ right_stack = <<>>
    /\ match_pairs = left_stack
    /\ ~contains_mismatch(match_pairs)

\* The two tokens whose pairs end up on top of the two stacks are neighbours in
\* the token sequence, and tokenize_prompts yields no two Literals in a row: at
\* the end of the loop the two stacks never both have a Literal pair on top.
NoLiteralTops == (cpc = "match" /\ prompts = <<>>) => ~LiteralTops

(***************************************************************************)
(* The content matcher run on a prescription string and a document string  *)
(* drawn independently of each other.                                      *)
(***************************************************************************)
RxStrings ==
    {<<>>, <<" ">>, <<" ", " ">>,
     A, A \o B, <<" ">> \o A, A \o <<" ">>, <<"a", " ", "b">>,
     MANDATORY_PROMPT, A \o OPTIONAL_PROMPT, A \o MANDATORY_PROMPT \o B}

DocStrings ==
    {<<>>, <<" ">>, A, B, A \o B, B \o A, B \o A \o B, <<"a", " ", "b">>, <<" ">> \o A}

InitStrings ==
    /\ rx_content \in RxStrings
    /\ node_content \in DocStrings
    /\ prompt_seq = <<>> /\ subs = <<>>
    /\ tokens = <<>> /\ prompts = <<>> /\ content_queue = <<>>
    /\ left_stack = <<>> /\ right_stack = <<>> /\ current_direction = "Left"
    /\ match_pairs = <<>> /\ cstep = <<>> /\ cpc = "start"
    /\ BlockIdle
    /\ NodeIdle

SpecStrings == InitStrings /\ [][NextContent]_vars

\* The string holds no prompt marker.
NoMarkers(s) == Occurrences(s, MANDATORY_PROMPT) \cup Occurrences(s, OPTIONAL_PROMPT) = {}

\* The string is empty or whitespace only.
Blank(s) == \A i \in 1..Len(s) : s[i] = " "

\* t is s without its leading and trailing whitespace.
IsTrimOf(t, s) ==
    /\ t = <<>> \/ (t[1] # " " /\ t[Len(t)] # " ")
    /\ \E i, j \in 0..Len(s) :
          /\ i + Len(t) + j = Len(s)
          /\ \A k \in 1..i : s[k] = " "
          /\ SubSeq(s, i + 1, i + Len(t)) = t
          /\ \A k \in (i + Len(t) + 1)..Len(s) : s[k] = " "

\* The document string holds the text somewhere.
Contains(s, t) == \E i \in 0..(Len(s) - Len(t)) : SubSeq(s, i + 1, i + Len(t)) = t

\* C28: for a prescription string without prompt markers that is not blank,
\* match_contents returns no mismatch exactly when the document string contains
\* the trimmed prescription text; text before or after it is accepted.
C28_LiteralIsSubstring ==
    (Matched /\ NoMarkers(rx_content) /\ ~Blank(rx_content))
        => \A t \in SeqsUpTo({"a", "b", " "}, Len(rx_content)) :
              IsTrimOf(t, rx_content)
                  => (~contains_mismatch(match_pairs) <=> Contains(node_content, t))

\* The prescription " a" or "a " was matched against the document "bab": no
\* mismatch, with text before and after the literal.
C28_Witness ==
    /\ Matched /\ NoMarkers(rx_content)
    /\ IsTrimOf(A, rx_content) /\ rx_content # A
    /\ node_content = B \o A \o B
    /\ ~contains_mismatch(match_pairs)

\* A prescription string without markers was matched against a document that
\* does not hold its text, with a mismatch.
LiteralMissing ==
    /\ Matched /\ NoMarkers(rx_content) /\ ~Blank(rx_content)
    /\ contains_mismatch(match_pairs)

\* C29: a blank prescription string has no tokens, and match_contents returns
\* no pairs and no mismatch whatever the document string is; a prescription
\* link with such a title accepts the document string as the title of a link.
C29_BlankPrescription ==
    /\ (Tokenized /\ Blank(rx_content)) => tokens = <<>>
    /\ (Matched /\ Blank(rx_content))
          => /\ match_pairs = <<>>
             /\ ~contains_mismatch(match_pairs)
             /\ validate_link_node_content(Link(A, node_content, B), Link(A, rx_content, B))
                    = NoProblems

\* A whitespace-only prescription string was matched against a document string
\* that is not empty.
C29_Witness ==
    /\ Matched
    /\ Blank(rx_content) /\ rx_content # <<>>
    /\ node_content = A \o B
    /\ match_pairs = <<>>

\* Siblings are numbered from the left: a bookmark that is not left of the node
\* cursor, when both are present.
NotLeftOf(bookmark, node) == (node # 0 /\ bookmark # 0) => bookmark >= node

\* C30: in every state of the sibling-block matcher, in the main loop, in each
\* Repeatable loop and in the result a Repeatable loop hands back, a bookmark
\* that is present is the node cursor or a sibling to its right.
C30_BookmarkNotLeftOfNode ==
    /\ NotLeftOf(current_bookmark, current_node)
    /\ \A i \in 1..Len(frames) :
          /\ NotLeftOf(frames[i].next_bookmark, frames[i].next_node)
          /\ NotLeftOf(frames[i].bookmark, frames[i].node)
    /\ (ret.pending /\ ret.res.kind = "State") => NotLeftOf(ret.res.bookmark, ret.res.node)
    /\ last.out.kind = "State" => NotLeftOf(last.out.bookmark, last.out.node)

\* A Repeatable loop that has matched once holds a bookmark to the right of its
\* node cursor, entered from a main loop whose bookmark is to the right of its
\* node cursor.
C30_Witness ==
    /\ frames # <<>>
    /\ frames[1].match_count >= 1
    /\ frames[1].next_node # 0 /\ frames[1].next_bookmark > frames[1].next_node
    /\ current_node # 0 /\ current_bookmark > current_node

\* A Mandatory step has rewound the cursors: node and bookmark are the previous
\* sibling of the match found.
Rewound ==
    /\ Stepped("Mandatory") /\ ~NodeMatched /\ last.out.kind = "State"
    /\ last.out.node # 0 /\ last.out.bookmark = last.out.node

\* A call of consume_mandatory_block_match (the Mandatory step with a bookmark
\* to scan from) whose node is present and matches rx.
MandatoryAdvance == Stepped("Mandatory") /\ last.bookmark # 0 /\ NodeMatched

\* The document sibling the bookmark returned by the last step follows: the
\* sibling to its right, the first sibling when the bookmark is absent.
RightOfNewBookmark == last.out.bookmark + 1

\* C31: in every Mandatory step whose node is present and matches rx, the scan
\* from the bookmark finds a match, node itself at the latest: the bookmark
\* returned is the previous sibling of a node that matches rx, which lies
\* between node and the old bookmark, and it is absent only when that node is
\* the first sibling.
C31_ScanFindsMatch ==
    MandatoryAdvance
        => /\ last.out.kind = "State"
           /\ RightOfNewBookmark \in last.node..last.bookmark
           /\ block_matches(docs[RightOfNewBookmark], rxs[last.rx])
           /\ last.out.bookmark = 0 => RightOfNewBookmark = 1

\* The scan ended on the stop node: the bookmark was on the sibling right of
\* node, which does not match rx, and the bookmark returned is the previous
\* sibling of node.
C31_Witness ==
    /\ MandatoryAdvance
    /\ last.bookmark = last.node + 1
    /\ last.node > 1
    /\ MatchesUpToNode = {last.node}
    /\ last.out.bookmark = last.node - 1

\* The tokens of the pairs that are no None-token pairs, in the order of the
\* pairs.
IsTokenPair(p) == p.token.kind # "None"
TokensOf(pairs) ==
    [i \in 1..Len(SelectSeq(pairs, IsTokenPair)) |-> SelectSeq(pairs, IsTokenPair)[i].token]

\* The number of tokens popped from the front: ceil(n / 2).
FrontCount(n) == (n + 1) \div 2

\* t1 .. t_ceil(n/2), then tn, t(n-1), .. t_(ceil(n/2)+1).
FrontThenBack(ts) ==
    [i \in 1..Len(ts) |->
        IF i <= FrontCount(Len(ts)) THEN ts[i]
        ELSE ts[Len(ts) - (i - FrontCount(Len(ts))) + 1]]

\* C32: the pairs match_contents returns, None-token pairs left out, carry each
\* token of the prescription once: the tokens popped from the front in
\* prescription order, then the tokens popped from the back in reverse
\* prescription order.
C32_PairOrder == Matched => TokensOf(match_pairs) = FrontThenBack(tokens)

\* Four tokens, the two popped from the back different from each other, and a
\* None-token pair among the pairs returned.
C32_Witness ==
    /\ Matched
    /\ Len(tokens) = 4
    /\ tokens[3] # tokens[4]
    /\ tokens[1] # tokens[4]
    /\ Len(match_pairs) > 4
    /\ TokensOf(match_pairs) = <<tokens[1], tokens[2], tokens[4], tokens[3]>>

====
